---- MODULE Spec2Model ----
(***************************************************************************)
(* Model of scripts/template-processor.py: the four rewrite passes of      *)
(* process_template over character sequences, and the environment filter   *)
(* load_variables_from_env.                                                *)
(* A string is a sequence of one-character strings; a mapping is a         *)
(* function whose domain is a set of such strings.                         *)
(***************************************************************************)
EXTENDS Integers, Sequences, FiniteSets, TLC

VARIABLES
    template_content,  \* the template string handed to process_template
    variables,         \* the name -> value mapping
    result,            \* the local `result` of process_template
    pc,                \* the statement process_template / main is at
    sweep,             \* the loop counter `_` of the two for loops
    environ,           \* os.environ
    shape              \* the structure template_content was written from;
                       \* the code never sees it, only the properties do

vars == <<template_content, variables, result, pc, sweep, environ, shape>>

\* ---------------------------------------------------------------- characters
UpperChars == {"A", "B", "C", "D", "E", "H", "P", "T", "X", "Y"}
LowerChars == {"a", "d", "e", "f", "h", "i", "l", "o", "p", "t", "u", "v", "x"}
DigitChars == {"1"}

\* \w of the patterns: letters, digits and the underscore
IsWord(c) == c \in UpperChars \cup LowerChars \cup DigitChars \cup {"_"}

\* ------------------------------------------------------------ string helpers
\* p occurs in s starting at position i (1-based)
StartsWith(s, i, p) ==
    /\ i + Len(p) - 1 <= Len(s)
    /\ \A k \in 1..Len(p) : s[i + k - 1] = p[k]

\* first position >= i that is past the end of s or holds a char not satisfying
\* the class: the end of the greedy run \w+ (cls = "w") or [^}]+ (cls = "nb")
InClass(cls, c) == IF cls = "w" THEN IsWord(c) ELSE c # "}"

RECURSIVE RunEnd(_, _, _)
RunEnd(cls, s, i) ==
    IF i <= Len(s) /\ InClass(cls, s[i]) THEN RunEnd(cls, s, i + 1) ELSE i

\* smallest k >= i where p occurs in s, 0 when there is none: the lazy .*?
\* followed by a literal (DOTALL: every character, newline included, is skipped)
RECURSIVE FindFrom(_, _, _)
FindFrom(s, i, p) ==
    IF i + Len(p) - 1 > Len(s) THEN 0
    ELSE IF StartsWith(s, i, p) THEN i
    ELSE FindFrom(s, i + 1, p)

NoMatch == [ok |-> FALSE]

\* the block patterns without the backreference: any closing tag ends a block
MatchBlockAnyCloser(sigil, s, i) ==
    IF ~StartsWith(s, i, <<"{", "{", sigil>>) THEN NoMatch
    ELSE LET n == RunEnd("w", s, i + 3) IN
         IF n = i + 3 \/ ~StartsWith(s, n, <<"}", "}">>) THEN NoMatch
         ELSE LET k == FindFrom(s, n + 2, <<"{", "{", "/">>)
                  e == IF k = 0 THEN 0 ELSE RunEnd("w", s, k + 3)
              IN IF k = 0 \/ e = k + 3 \/ ~StartsWith(s, e, <<"}", "}">>) THEN NoMatch
                 ELSE [ok |-> TRUE, g1 |-> SubSeq(s, i + 3, n - 1),
                       g2 |-> SubSeq(s, n + 2, k - 1), end |-> e + 2]

\* \{\{#(\w+)\}\}(.*?)\{\{/\1\}\}  (sigil "#")  and
\* \{\{\^(\w+)\}\}(.*?)\{\{/\1\}\} (sigil "^")  tried at position i.
\* \w+ can only end at the end of the word run, since "}" is no word char.
MatchBlock(sigil, s, i) ==
    IF ~StartsWith(s, i, <<"{", "{", sigil>>) THEN NoMatch
    ELSE LET n == RunEnd("w", s, i + 3) IN
         IF n = i + 3 \/ ~StartsWith(s, n, <<"}", "}">>) THEN NoMatch
         ELSE LET name == SubSeq(s, i + 3, n - 1)
                  closer == <<"{", "{", "/">> \o name \o <<"}", "}">>
                  k == FindFrom(s, n + 2, closer)
              IN IF k = 0 THEN NoMatch
                 ELSE [ok |-> TRUE, g1 |-> name, g2 |-> SubSeq(s, n + 2, k - 1),
                       end |-> k + Len(closer)]

DefaultLit == <<"|", "d", "e", "f", "a", "u", "l", "t", ":">>

\* \{\{(\w+)\|default:([^}]+)\}\} tried at position i
MatchDefault(s, i) ==
    IF ~StartsWith(s, i, <<"{", "{">>) THEN NoMatch
    ELSE LET n == RunEnd("w", s, i + 2) IN
         IF n = i + 2 \/ ~StartsWith(s, n, DefaultLit) THEN NoMatch
         ELSE LET d == n + Len(DefaultLit)
                  e == RunEnd("nb", s, d)
              IN IF e = d \/ ~StartsWith(s, e, <<"}", "}">>) THEN NoMatch
                 ELSE [ok |-> TRUE, g1 |-> SubSeq(s, i + 2, n - 1),
                       g2 |-> SubSeq(s, d, e - 1), end |-> e + 2]

\* \{\{(\w+)\}\} tried at position i
MatchSimple(s, i) ==
    IF ~StartsWith(s, i, <<"{", "{">>) THEN NoMatch
    ELSE LET n == RunEnd("w", s, i + 2) IN
         IF n = i + 2 \/ ~StartsWith(s, n, <<"}", "}">>) THEN NoMatch
         ELSE [ok |-> TRUE, g1 |-> SubSeq(s, i + 2, n - 1), g2 |-> <<>>,
               end |-> n + 2]

\* dict.get(key, default)
Get(m, k, d) == IF k \in DOMAIN m THEN m[k] ELSE d

replace_conditional(m, vs) ==
    LET var_value == Get(vs, m.g1, <<>>) IN
    IF var_value # <<>> THEN m.g2 ELSE <<>>

\* the negative block deciding as the positive one does
replace_inverted_as_conditional(m, vs) ==
    LET var_value == Get(vs, m.g1, <<>>) IN
    IF var_value # <<>> THEN m.g2 ELSE <<>>

replace_inverted_conditional(m, vs) ==
    LET var_value == Get(vs, m.g1, <<>>) IN
    IF ~(var_value # <<>>) THEN m.g2 ELSE <<>>

\* the default taken whenever the value is empty: variables.get(name) or default
replace_with_default_if_empty(m, vs) ==
    IF Get(vs, m.g1, <<>>) # <<>> THEN vs[m.g1] ELSE m.g2

replace_with_default(m, vs) == Get(vs, m.g1, m.g2)

replace_simple(m, vs) == Get(vs, m.g1, <<>>)

Match(pat, s, i) ==
    CASE pat = "cond" -> MatchBlock("#", s, i)
      [] pat = "inv" -> MatchBlock("^", s, i)
      [] pat = "default" -> MatchDefault(s, i)
      [] pat = "simple" -> MatchSimple(s, i)

Repl(pat, m, vs) ==
    CASE pat = "cond" -> replace_conditional(m, vs)
      [] pat = "inv" -> replace_inverted_conditional(m, vs)
      [] pat = "default" -> replace_with_default(m, vs)
      [] pat = "simple" -> replace_simple(m, vs)

\* re.sub: leftmost non-overlapping matches, scanning resumes after each match
\* and never inside a replacement
RECURSIVE SubFrom(_, _, _, _)
SubFrom(pat, s, vs, i) ==
    IF i > Len(s) THEN <<>>
    ELSE IF s[i] # "{" THEN <<s[i]>> \o SubFrom(pat, s, vs, i + 1)
    ELSE LET m == Match(pat, s, i) IN
         IF m.ok THEN Repl(pat, m, vs) \o SubFrom(pat, s, vs, m.end)
         ELSE <<s[i]>> \o SubFrom(pat, s, vs, i + 1)

ReSub(pat, s, vs) == SubFrom(pat, s, vs, 1)

\* ------------------------------------------------------------ process_template
\* one sweep fewer, and one more, for the positive conditionals
CondSweepsFewer == 3 - 1
CondSweepsMore == 3 + 1

\* for _ in range(3), positive and negative conditionals
CondSweeps == 3
InvSweeps == 3

RECURSIVE Repeat(_, _, _, _)
Repeat(pat, n, s, vs) ==
    IF n = 0 THEN s ELSE Repeat(pat, n - 1, ReSub(pat, s, vs), vs)

\* the variable passes run before the conditional ones
PassOrderVariablesFirst == <<"default", "simple", "cond", "inv">>

\* the statements of process_template in program order
PassOrder == <<"cond", "inv", "default", "simple">>

process_template(t, vs) ==
    LET Run(p, s) ==
            CASE p = "cond" -> Repeat("cond", CondSweeps, s, vs)
              [] p = "inv" -> Repeat("inv", InvSweeps, s, vs)
              [] OTHER -> ReSub(p, s, vs)
    IN Run(PassOrder[4], Run(PassOrder[3], Run(PassOrder[2], Run(PassOrder[1], t))))

\* the statement after the one at index i of PassOrder
After(i) == IF i < Len(PassOrder) THEN PassOrder[i + 1] ELSE "done"
Index(p) == CHOOSE i \in 1..Len(PassOrder) : PassOrder[i] = p

\* ----------------------------------------------------- load_variables_from_env
\* the test without its cased-character condition
isupper_no_lowercase(k) == \A i \in 1..Len(k) : k[i] \notin LowerChars

\* str.isupper(): at least one cased character and no lowercase one
isupper(k) ==
    /\ \E i \in 1..Len(k) : k[i] \in UpperChars \cup LowerChars
    /\ \A i \in 1..Len(k) : k[i] \notin LowerChars

load_variables_from_env(env) ==
    [k \in {n \in DOMAIN env : isupper(n)} |-> env[k]]

\* ------------------------------------------------------------------- inputs
\* A template is written from a sequence of nodes: literal text, a conditional
\* block around a body, a plain or defaulted variable reference, or a lone
\* opening or closing tag.
Node(t, kind, name, s, body) ==
    [t |-> t, kind |-> kind, name |-> name, s |-> s, body |-> body]
Text(s) == Node("text", "", <<>>, s, <<>>)
Block(kind, name, body) == Node("block", kind, name, <<>>, body)
Var(name) == Node("var", "", name, <<>>, <<>>)
Dflt(name, d) == Node("def", "", name, d, <<>>)
Opener(kind, name) == Node("open", kind, name, <<>>, <<>>)
Closer(name) == Node("close", "", name, <<>>, <<>>)

OpenTag(kind, name) == <<"{", "{", kind>> \o name \o <<"}", "}">>
CloseTag(name) == <<"{", "{", "/">> \o name \o <<"}", "}">>

RECURSIVE Render(_)
Render(ns) ==
    IF ns = <<>> THEN <<>>
    ELSE LET n == Head(ns)
             one ==
               CASE n.t = "text" -> n.s
                 [] n.t = "block" ->
                      OpenTag(n.kind, n.name) \o Render(n.body) \o CloseTag(n.name)
                 [] n.t = "var" -> <<"{", "{">> \o n.name \o <<"}", "}">>
                 [] n.t = "def" ->
                      <<"{", "{">> \o n.name \o DefaultLit \o n.s \o <<"}", "}">>
                 [] n.t = "open" -> OpenTag(n.kind, n.name)
                 [] n.t = "close" -> CloseTag(n.name)
         IN one \o Render(Tail(ns))

Kinds == {"#", "^"}
NameList == <<"A", "B", "C", "D", "E">>
Name(i) == <<NameList[i]>>

MaxDepth == 4
MaxSiblings == 2
MaxTags == 3
MaxItems == 2

Max(S) == CHOOSE x \in S : \A y \in S : y <= x
Min(a, b) == IF a < b THEN a ELSE b

\* the values a conditional cares about: empty and non-empty
PlainValues == {<<>>, <<"1">>}
\* every mapping that gives some of the names N a value of V
MappingsOver(N, V) == UNION {[D -> V] : D \in SUBSET N}

\* --- nested blocks: one block inside the other, MaxDepth deep at most, of
\* either kind at every level; names are numbered in order of first use, so
\* that every pattern of repeated and distinct names occurs once
NameSeqs(d) ==
    {ns \in [1..d -> 1..Min(d, Len(NameList))] :
        /\ ns[1] = 1
        /\ \A i \in 2..d : ns[i] <= 1 + Max({ns[j] : j \in 1..(i - 1)})}

Body == <<"h", "\n", "i">>

RECURSIVE Chain(_, _, _, _)
Chain(ks, ns, i, inner) ==
    IF i > Len(ks) THEN inner
    ELSE <<Block(ks[i], Name(ns[i]), Chain(ks, ns, i + 1, inner))>>

ChainsOf(d, names, inner) ==
    {Chain(ks, ns, 1, inner) : ks \in [1..d -> Kinds], ns \in names}

NestedShapes == UNION {ChainsOf(d, NameSeqs(d), <<Text(Body)>>) : d \in 1..MaxDepth}

\* --- sibling blocks: MaxSiblings blocks side by side, each a single block or
\* two nested blocks of different names, the i-th around the text SibText[i];
\* alone or together inside a block C
SibText == <<"p", "q", "r", "s">>
SibNames == {<<1>>, <<2>>, <<1, 2>>, <<2, 1>>}
Siblings(i) ==
    UNION {ChainsOf(Len(ns), {ns}, <<Text(<<SibText[i]>>)>>) : ns \in SibNames}

RECURSIVE Rows(_)
Rows(n) ==
    IF n = 0 THEN {<<>>}
    ELSE {r \o s : r \in Rows(n - 1), s \in Siblings(n)}

SiblingRows == UNION {Rows(n) : n \in 2..Min(MaxSiblings, Len(SibText))}
SiblingShapes ==
    SiblingRows \cup {<<Block(k, Name(3), r)>> : k \in Kinds, r \in SiblingRows}

\* --- malformed markup: up to MaxTags lone tags and texts in a row, over the
\* names A and AB
TagNames == {<<"A">>, <<"A", "B">>}
Tags ==
    {Opener(k, n) : k \in Kinds, n \in TagNames}
        \cup {Closer(n) : n \in TagNames} \cup {Text(<<"x">>)}
TagShapes == UNION {[1..n -> Tags] : n \in 1..MaxTags}

\* --- variable references: up to MaxItems references and texts in a row,
\* alone or together inside a block A
Defaults == {<<"d">>, <<" ", "d", " ">>, <<"{", "{", "Y">>}
Items ==
    {Var(<<"X">>), Var(<<"Y">>), Text(<<"}", "}">>), Text(<<"t">>)}
        \cup {Dflt(<<"X">>, d) : d \in Defaults}
ItemRows == UNION {[1..n -> Items] : n \in 1..MaxItems}
ItemShapes ==
    ItemRows \cup {<<Block(k, <<"A">>, r)>> : k \in Kinds, r \in ItemRows}

BlockValue == OpenTag("#", <<"A">>) \o <<"x">> \o CloseTag(<<"A">>)
TokenValue == <<"{", "{", "Y", "}", "}">>
ItemMappings ==
    {x @@ y @@ a :
        x \in MappingsOver({<<"X">>}, {<<>>, <<"v">>, TokenValue, BlockValue}),
        y \in MappingsOver({<<"Y">>}, {<<>>, <<"w">>}),
        a \in MappingsOver({<<"A">>}, {<<"1">>})}

RECURSIVE NamesOf(_)
NamesOf(ns) ==
    IF ns = <<>> THEN {}
    ELSE (IF Head(ns).t = "text" THEN {} ELSE {Head(ns).name})
            \cup NamesOf(Head(ns).body) \cup NamesOf(Tail(ns))

\* ------------------------------------------------------------ the program
Start(sh, vs) ==
    /\ shape = sh
    /\ variables = vs
    /\ template_content = Render(sh)
    /\ result = template_content
    /\ pc = PassOrder[1]
    /\ sweep = 0
    /\ environ = <<>>

Init ==
    \/ \E sh \in NestedShapes \cup SiblingShapes \cup TagShapes :
         \E vs \in MappingsOver(NamesOf(sh), PlainValues) : Start(sh, vs)
    \/ \E sh \in ItemShapes : \E vs \in ItemMappings : Start(sh, vs)

\* for _ in range(3): result = re.sub(<positive block>, replace_conditional, result)
CondSweep ==
    /\ pc = "cond"
    /\ result' = ReSub("cond", result, variables)
    /\ sweep' = IF sweep + 1 >= CondSweeps THEN 0 ELSE sweep + 1
    /\ pc' = IF sweep + 1 >= CondSweeps THEN After(Index("cond")) ELSE pc
    /\ UNCHANGED <<template_content, variables, environ, shape>>

\* for _ in range(3): result = re.sub(<negative block>, replace_inverted_conditional, result)
InvSweep ==
    /\ pc = "inv"
    /\ result' = ReSub("inv", result, variables)
    /\ sweep' = IF sweep + 1 >= InvSweeps THEN 0 ELSE sweep + 1
    /\ pc' = IF sweep + 1 >= InvSweeps THEN After(Index("inv")) ELSE pc
    /\ UNCHANGED <<template_content, variables, environ, shape>>

\* result = re.sub(<defaulted variable>, replace_with_default, result)
DefaultPass ==
    /\ pc = "default"
    /\ result' = ReSub("default", result, variables)
    /\ pc' = After(Index("default"))
    /\ UNCHANGED <<template_content, variables, sweep, environ, shape>>

\* result = re.sub(<plain variable>, replace_simple, result); return result
SimplePass ==
    /\ pc = "simple"
    /\ result' = ReSub("simple", result, variables)
    /\ pc' = After(Index("simple"))
    /\ UNCHANGED <<template_content, variables, sweep, environ, shape>>

Next == CondSweep \/ InvSweep \/ DefaultPass \/ SimplePass

Spec == Init /\ [][Next]_vars

\* main: variables = load_variables_from_env()
EnvNames ==
    {<<"P", "A", "T", "H">>, <<"p", "a", "t", "h">>, <<"P", "a", "t", "h">>,
     <<"P", "_", "1">>, <<"_", "1">>, <<"P">>, <<"p">>}
EnvValues == {<<>>, <<"v">>}

InitEnv ==
    /\ environ \in MappingsOver(EnvNames, EnvValues)
    /\ variables = <<>>
    /\ pc = "load"
    /\ template_content = <<>>
    /\ result = <<>>
    /\ sweep = 0
    /\ shape = <<>>

LoadVariables ==
    /\ pc = "load"
    /\ variables' = load_variables_from_env(environ)
    /\ pc' = "loaded"
    /\ UNCHANGED <<template_content, result, sweep, environ, shape>>

NextEnv == LoadVariables

SpecEnv == InitEnv /\ [][NextEnv]_vars

\* ================================================================ properties
Done == pc = "done"

Present(vs, n) == n \in DOMAIN vs
Truthy(vs, n) == Present(vs, n) /\ vs[n] # <<>>
Keeps(b, vs) == IF b.kind = "#" THEN Truthy(vs, b.name) ELSE ~Truthy(vs, b.name)

\* the value of a tree of blocks: a block stands for the value of its body
\* when it is kept and for nothing when it is dropped
RECURSIVE Eval(_, _)
Eval(ns, vs) ==
    IF ns = <<>> THEN <<>>
    ELSE LET n == Head(ns)
             one == CASE n.t = "text" -> n.s
                      [] n.t = "block" ->
                           IF Keeps(n, vs) THEN Eval(n.body, vs) ELSE <<>>
                      [] OTHER -> Render(<<n>>)
         IN one \o Eval(Tail(ns), vs)

RECURSIVE BlocksOnly(_)
BlocksOnly(ns) ==
    \A i \in 1..Len(ns) :
        \/ ns[i].t = "text"
        \/ ns[i].t = "block" /\ BlocksOnly(ns[i].body)

RECURSIVE Depth(_)
Depth(ns) ==
    Max({0} \cup {1 + Depth(ns[i].body) : i \in {j \in 1..Len(ns) : ns[j].t = "block"}})

\* some block lies inside a block of its own name; E: the enclosing names
RECURSIVE NestsName(_, _)
NestsName(ns, E) ==
    \E i \in 1..Len(ns) :
        /\ ns[i].t = "block"
        /\ \/ ns[i].name \in E
           \/ NestsName(ns[i].body, E \cup {ns[i].name})

RECURSIVE KindsOf(_)
KindsOf(ns) ==
    UNION {{ns[i].kind} \cup KindsOf(ns[i].body) :
             i \in {j \in 1..Len(ns) : ns[j].t = "block"}}

\* the block at nesting level i of a chain of blocks
RECURSIVE Level(_, _)
Level(ns, i) == IF i = 1 THEN ns[1] ELSE Level(ns[1].body, i - 1)

Contains(s, p) == FindFrom(s, 1, p) # 0
HasBlockTag(s) ==
    \/ Contains(s, <<"{", "{", "#">>)
    \/ Contains(s, <<"{", "{", "^">>)
    \/ Contains(s, <<"{", "{", "/">>)
MarkupFree(vs) == \A n \in DOMAIN vs : ~Contains(vs[n], <<"{">>)

\* C1: blocks nested at most 3 deep, none inside a block of its own name, under
\* a mapping of markup-free values: process_template returns the recursive
\* value of the block tree, and no conditional tag is left in it
C1_NestingResolved ==
    (/\ Done
     /\ BlocksOnly(shape)
     /\ Depth(shape) <= 3
     /\ ~NestsName(shape, {})
     /\ MarkupFree(variables))
        => /\ result = Eval(shape, variables)
           /\ ~HasBlockTag(result)

\* three blocks of both kinds one inside the other, all kept
C1_Witness ==
    /\ Done
    /\ Depth(shape) = 3
    /\ ~NestsName(shape, {})
    /\ KindsOf(shape) = Kinds
    /\ Level(shape, 3).kind = "^"
    /\ \A i \in 1..3 : Keeps(Level(shape, i), variables)
    /\ result = Body

\* the other kind of conditional
Flip(k) == IF k = "#" THEN "^" ELSE "#"

\* C2: {{^X}}C{{/X}} is the complement of {{#X}}C{{/X}}: one of the two yields
\* C and the other the empty string, the positive one yielding C exactly when
\* X is present and non-empty
C2_Complement ==
    (/\ Done
     /\ Len(shape) = 1
     /\ shape[1].t = "block"
     /\ Len(shape[1].body) = 1
     /\ shape[1].body[1].t = "text")
        => LET b == shape[1]
               c == b.body[1].s
               other == process_template(
                            Render(<<Block(Flip(b.kind), b.name, b.body)>>), variables)
               pos == IF b.kind = "#" THEN result ELSE other
               neg == IF b.kind = "#" THEN other ELSE result
           IN /\ c # <<>>
              /\ IF Truthy(variables, b.name)
                 THEN pos = c /\ neg = <<>>
                 ELSE pos = <<>> /\ neg = c

\* the negative block of a variable that is present and empty yields its content
C2_Witness ==
    /\ Done
    /\ shape = <<Block("^", Name(1), <<Text(Body)>>)>>
    /\ Present(variables, Name(1))
    /\ variables[Name(1)] = <<>>
    /\ result = Body

\* C7: four positive blocks of pairwise distinct names one inside the other,
\* the three outer variables present and non-empty: the innermost block is
\* returned with its opening and closing tag around its content
C7_FourthLevelLeft ==
    (/\ Done
     /\ BlocksOnly(shape)
     /\ Depth(shape) = 4
     /\ KindsOf(shape) = {"#"}
     /\ Cardinality(NamesOf(shape)) = 4
     /\ \A i \in 1..3 : Truthy(variables, Level(shape, i).name))
        => LET b == Level(shape, 4) IN
           result = OpenTag("#", b.name) \o Render(b.body) \o CloseTag(b.name)

\* such a template with the innermost variable set as well
C7_Witness ==
    /\ Done
    /\ Depth(shape) = 4
    /\ KindsOf(shape) = {"#"}
    /\ Cardinality(NamesOf(shape)) = 4
    /\ \A i \in 1..4 : Truthy(variables, Level(shape, i).name)
    /\ result = OpenTag("#", Name(4)) \o Body \o CloseTag(Name(4))

\* C9: positive blocks nested at most 3 deep with a block inside a block of its
\* own name: the output is the recursive value of the tree, no tag is left
C9_SameNameResolved ==
    (/\ Done
     /\ BlocksOnly(shape)
     /\ KindsOf(shape) = {"#"}
     /\ Depth(shape) <= 3
     /\ NestsName(shape, {}))
        => /\ result = Eval(shape, variables)
           /\ ~HasBlockTag(result)

\* the content of a template of variable references: the row itself, or the
\* row inside one block A, which is then kept or dropped
IsRow(ns) == \A i \in 1..Len(ns) : ns[i].t \in {"text", "var", "def"}
Wrapped(ns) == Len(ns) = 1 /\ ns[1].t = "block" /\ IsRow(ns[1].body)
Row(ns) == IF Wrapped(ns) THEN ns[1].body ELSE ns
Shown(ns, vs) == IF Wrapped(ns) THEN Keeps(ns[1], vs) ELSE IsRow(ns)

\* a row after Pass 3: every defaulted reference replaced by the value of its
\* variable when the mapping has the variable, by its DEFAULT text otherwise
RECURSIVE Defaulted(_, _)
Defaulted(ns, vs) ==
    IF ns = <<>> THEN <<>>
    ELSE LET n == Head(ns)
             one == IF n.t # "def" THEN Render(<<n>>)
                    ELSE IF Present(vs, n.name) THEN vs[n.name] ELSE n.s
         IN one \o Defaulted(Tail(ns), vs)

\* C3: Pass 3 replaces {{NAME|default:DEFAULT}} by vars[NAME] whenever NAME is
\* in the mapping, an empty value included, and by DEFAULT only when it is not
C3_PresenceDecides ==
    (/\ pc = "simple"
     /\ Shown(shape, variables)
     /\ \E i \in 1..Len(Row(shape)) : Row(shape)[i].t = "def")
        => result = Defaulted(Row(shape), variables)

\* {{X|default:d}} with X present and empty: Pass 3 leaves the empty string
C3_Witness ==
    /\ pc = "simple"
    /\ shape = <<Dflt(<<"X">>, <<"d">>)>>
    /\ Present(variables, <<"X">>)
    /\ variables[<<"X">>] = <<>>
    /\ result = <<>>

\* C4: with NAME absent, the characters captured as DEFAULT are in the output
\* of process_template unchanged
C4_DefaultVerbatim ==
    (Done /\ IsRow(shape))
        => \A i \in 1..Len(shape) :
             (shape[i].t = "def" /\ ~Present(variables, shape[i].name))
                => Contains(result, shape[i].s)

\* no opening tag of the row has a closing tag of its name after it
Unmatched(ns) ==
    \A i \in 1..Len(ns) : \A j \in (i + 1)..Len(ns) :
        ~(ns[i].t = "open" /\ ns[j].t = "close" /\ ns[i].name = ns[j].name)
IsTagRow(ns) == \A i \in 1..Len(ns) : ns[i].t \in {"text", "open", "close"}

PassesInOrder ==
    pc' # pc => <<pc, pc'>> \in {<<"cond", "inv">>, <<"inv", "default">>,
                                <<"default", "simple">>, <<"simple", "done">>}

\* C6, its effect: a reference {{X}} in the content a conditional keeps is
\* replaced by the value of X, and a value that is a whole conditional block
\* comes out with its tags
ValueNotRescanned ==
    /\ (Done /\ Wrapped(shape) /\ Keeps(shape[1], variables)
             /\ Row(shape) = <<Var(<<"X">>)>>)
          => result = Get(variables, <<"X">>, <<>>)
    /\ (/\ Done
        /\ Shown(shape, variables)
        /\ Row(shape) \in {<<Var(<<"X">>)>>, <<Dflt(<<"X">>, <<"d">>)>>}
        /\ Present(variables, <<"X">>)
        /\ variables[<<"X">>] = BlockValue)
          => result = BlockValue

\* C6: the passes run in the order positive conditionals, negative
\* conditionals, defaulted variables, plain variables, and what Pass 3/4 put
\* into the text is not read by Pass 1/2
C6_OneDirection == [][PassesInOrder]_vars /\ []ValueNotRescanned

\* {{#A}}{{X}}{{/A}} with A set and the value of X a block on A
C6_Witness ==
    /\ Done
    /\ shape = <<Block("#", <<"A">>, <<Var(<<"X">>)>>)>>
    /\ Truthy(variables, <<"A">>)
    /\ Present(variables, <<"X">>)
    /\ variables[<<"X">>] = BlockValue
    /\ result = BlockValue

\* C10: a value holding {{Y}} comes out of {{X}} and of {{X|default:d}} as it is
C10_ValueLiteral ==
    (/\ Done
     /\ shape \in {<<Var(<<"X">>)>>, <<Dflt(<<"X">>, <<"d">>)>>}
     /\ Present(variables, <<"X">>)
     /\ variables[<<"X">>] = TokenValue)
        => result = variables[<<"X">>]

Loaded == pc = "loaded"
AllUpper(k) == \A i \in 1..Len(k) : k[i] \in UpperChars
SomeUpper(k) == \E i \in 1..Len(k) : k[i] \in UpperChars
SomeLower(k) == \E i \in 1..Len(k) : k[i] \in LowerChars

\* C8, as stated: the names returned are those made of uppercase characters only
C8_AllUppercaseNames ==
    Loaded => DOMAIN variables = {k \in DOMAIN environ : AllUpper(k)}

\* C8, amended: the entries returned are those whose name has an uppercase
\* letter and no lowercase letter, each under its name with its value
C8_UpperAndNoLower ==
    Loaded =>
        /\ DOMAIN variables \subseteq DOMAIN environ
        /\ \A k \in DOMAIN environ :
             /\ k \in DOMAIN variables <=> (SomeUpper(k) /\ ~SomeLower(k))
             /\ k \in DOMAIN variables => variables[k] = environ[k]

\* PATH and P_1 are returned; path, Path and _1 are not
C8_Witness ==
    /\ Loaded
    /\ {<<"p", "a", "t", "h">>, <<"P", "a", "t", "h">>, <<"_", "1">>}
          \subseteq DOMAIN environ
    /\ DOMAIN variables = {<<"P", "A", "T", "H">>, <<"P", "_", "1">>}
====
